---- MODULE Spec2Model ----
(***************************************************************************)
(* A model of iniload (src/iniload.h): the byte-driven state machine of    *)
(* ini_load, the growable section/key arrays behind it, and the read-only  *)
(* accessors over a loaded document.                                       *)
(*                                                                         *)
(* A file is a sequence of one-character strings.  A C string is modelled  *)
(* by the sequence of its characters up to (not including) its NUL, so     *)
(* strcmp(a, b) == 0 is sequence equality.  The loop index i is 0-based as *)
(* in the C code; the byte under the cursor is buf[i + 1].                 *)
(***************************************************************************)
EXTENDS Integers, Sequences, FiniteSets, TLC

INILOAD_NAME_MAXLEN == 128
INILOAD_INITIAL_CAP == 16

\* The synthetic terminator written at buf[file_size].
NUL == "NUL"

\* ---- bounds of the input families ------------------------------------
\* Files of the general family have at most MaxLines lines.
MaxLines == 3
\* Runs of a repeated line go up to INILOAD_INITIAL_CAP + ExtraRun lines.
ExtraRun == 2
\* Long names go up to INILOAD_NAME_MAXLEN + NameSlack characters.
NameSlack == 2
\* At most MaxAllocFail calls of malloc/realloc fail during one load.
MaxAllocFail == 1

VARIABLES
  file,          \* the input as a sequence of lines (kept for reference)
  buf,           \* the file's bytes followed by NUL
  i,             \* loop index of the scan
  state,         \* parser state (INIPS_*)
  curr_str,      \* name being captured (curr_pos is its length)
  val_str,       \* value being captured (val_pos is its length)
  quotes,        \* the value started with a double quote
  curr_section,  \* index of the current section, 0 for NULL
  bad_syntax,
  alloc_error,
  sections,      \* ptr_sections[0 .. num_sections-1]
  cap_sections,
  fails,         \* allocation failures so far
  pc,            \* "start", "scan", "loaded", "done", "freed", "crashed"
  result,        \* "none", "doc", "NULL", "crash"
  q              \* the last query made on the loaded document

vars == <<file, buf, i, state, curr_str, val_str, quotes, curr_section,
          bad_syntax, alloc_error, sections, cap_sections, fails, pc,
          result, q>>

\* ---- input families --------------------------------------------------
\* n copies of x.
Rep(x, n) == [j \in 1..n |-> x]

\* The lines of a file joined by newlines, no newline after the last one.
RECURSIVE Join(_)
Join(lines) ==
  IF lines = <<>> THEN <<>>
  ELSE IF Len(lines) = 1 THEN lines[1]
  ELSE lines[1] \o <<"\n">> \o Join(Tail(lines))

L_blank    == <<>>
L_comment  == <<";", "a">>
L_secA     == <<"[", "a", "]">>
L_secB     == <<"[", "b", "]">>
L_secOpen  == <<"[", "a">>
L_keyInt   == <<"a", " ", "=", " ", "1", "2">>
L_keyFloat == <<"b", " ", "=", "1", ".", "2">>
L_keyStr   == <<"b", " ", "=", " ", "x">>
L_keyTight == <<"a", "=", "1">>
L_keyQuote == <<"a", " ", "=", "\"", "1", "\"">>

LineSet == {L_blank, L_comment, L_secA, L_secB, L_secOpen,
            L_keyInt, L_keyFloat, L_keyStr, L_keyTight, L_keyQuote}

RECURSIVE SeqsUpTo(_, _)
SeqsUpTo(S, n) ==
  IF n = 0 THEN {<<>>}
  ELSE LET shorter == SeqsUpTo(S, n - 1)
       IN  shorter \cup {<<x>> \o s : x \in S, s \in {t \in shorter : Len(t) = n - 1}}

\* Every file of at most MaxLines lines drawn from LineSet.
GeneralFiles == SeqsUpTo(LineSet, MaxLines)

MaxRun == INILOAD_INITIAL_CAP + ExtraRun

\* Runs of one repeated line, past the initial capacity of both arrays:
\* many headers, many keys in one section, many section-less keys.
RunFiles ==
  UNION { { Rep(L_secA, n),
            <<L_keyInt>> \o Rep(L_secA, n),
            <<L_secB>> \o Rep(L_keyInt, n),
            <<L_secB>> \o Rep(L_keyStr, n) \o <<L_secB, L_keyInt>>,
            Rep(L_keyStr, n) }
          : n \in (INILOAD_INITIAL_CAP - 1)..MaxRun }

LongName(n) == Rep("a", n)

\* Section and key names around the maximum length.
LongFiles ==
  UNION { { << <<"[">> \o LongName(n) \o <<"]">> >>,
            << LongName(n) \o <<" ", "=", "1">> >> }
          : n \in (INILOAD_NAME_MAXLEN - 1)..(INILOAD_NAME_MAXLEN + NameSlack) }

\* Lines at the edges of the grammar: blanks after a header, quotes left
\* open or followed by more text, delimiters before and inside values,
\* headers cut short.
E_secSp       == <<"[", "a", "]", " ">>
E_secJunk     == <<"[", "a", "]", "x">>
E_quoteOpen   == <<"a", " ", "=", "\"", "1">>
E_quoteSp     == <<"a", " ", "=", "\"", "1", "\"", " ">>
E_quoteKey    == <<"a", " ", "=", "\"", "1", "\"", "b", " ", "=", "x">>
E_quoteHeader == <<"a", " ", "=", "\"", "1", "\"", "[", "b", "]">>
E_quoteNote   == <<"a", " ", "=", "\"", "1", "\"", ";", "c">>
E_quoteFloat  == <<"a", " ", "=", "\"", "1", ".", "2", "\"">>
E_quoteDelims == <<"a", " ", "=", "\"", "[", "=", "]", "\"">>
E_eqEq        == <<"a", " ", "=", "=">>
E_eqOpen      == <<"a", " ", "=", "[">>
E_eqClose     == <<"a", " ", "=", "]">>
E_eqEmpty     == <<"a", " ", "=", " ">>
E_valEq       == <<"a", " ", "=", "x", "=">>
E_valOpen     == <<"a", " ", "=", "x", "[">>
E_valClose    == <<"a", " ", "=", "x", "]">>
E_secEq       == <<"[", "a", "=">>
E_secSemi     == <<"[", "a", ";">>
E_secHash     == <<"[", "a", "#">>
E_secTwice    == <<"[", "[", "a", "]">>
E_space       == <<" ">>
E_hash        == <<"#", "a">>

EdgeLines == {E_secSp, E_secJunk, E_quoteOpen, E_quoteSp, E_quoteKey,
              E_quoteHeader, E_quoteNote, E_quoteFloat, E_quoteDelims,
              E_eqEq, E_eqOpen, E_eqClose, E_eqEmpty, E_valEq, E_valOpen,
              E_valClose, E_secEq, E_secSemi, E_secHash, E_secTwice,
              E_space, E_hash}

\* An edge line alone, after a header, before a key line, before a blank
\* line (so that it ends in a newline and not in the terminator).
EdgeFiles ==
  UNION { { <<e>>, <<L_secA, e>>, <<e, L_keyStr>>, <<e, L_blank>> }
          : e \in EdgeLines }

Files == GeneralFiles \cup RunFiles \cup LongFiles \cup EdgeFiles

\* ---- character classes used by the scan ------------------------------
file_size == Len(buf) - 1
num_sections == Len(sections)
curr_pos == Len(curr_str)
val_pos == Len(val_str)

NoQuery == [asked |-> FALSE, section |-> <<>>, key |-> <<>>,
            has_section |-> FALSE, num_keys |-> 0, has_key |-> FALSE,
            get_int |-> <<>>, get_float |-> <<>>, get_string |-> <<>>]

Init ==
  /\ file \in Files
  /\ buf = Join(file) \o <<NUL>>
  /\ i = 0
  /\ state = "INIPS_NONE"
  /\ curr_str = <<>>
  /\ val_str = <<>>
  /\ quotes = FALSE
  /\ curr_section = 0
  /\ bad_syntax = FALSE
  /\ alloc_error = FALSE
  /\ sections = <<>>
  /\ cap_sections = 0
  /\ fails = 0
  /\ pc = "start"
  /\ result = "none"
  /\ q = NoQuery

\* An allocation may fail while the failure budget lasts.
AllocOutcomes == IF fails < MaxAllocFail THEN {TRUE, FALSE} ELSE {TRUE}

\* fopen, the three buffers, fread, the ini_file struct and the section
\* array: any failure returns NULL before the scan starts.
ini_load_open ==
  /\ pc = "start"
  /\ \E ok \in AllocOutcomes :
       IF ok
       THEN /\ pc' = "scan"
            /\ cap_sections' = INILOAD_INITIAL_CAP
            /\ UNCHANGED <<result, fails>>
       ELSE /\ pc' = "done"
            /\ result' = "NULL"
            /\ fails' = fails + 1
            /\ UNCHANGED cap_sections
  /\ UNCHANGED <<file, buf, i, state, curr_str, val_str, quotes,
                 curr_section, bad_syntax, alloc_error, sections, q>>

\* ---- growable arrays ------------------------------------------------
\* GrownCap growing by one slot.
GrownCap_PlusOne(cap) == cap + 1

\* Lines 179 and 184, 203 and 208: a full array is grown to twice its
\* capacity.
GrownCap(cap) == cap * 2

NewSection(section_name) ==
  [name |-> section_name, cap_keys |-> INILOAD_INITIAL_CAP,
   keys |-> <<>>, ptr_keys |-> "live"]

num_keys(section) == Len(section.keys)

\* __ini_add_section reusing the record of an earlier section of that name.
__ini_add_section_Merge(secs, cap, section_name, realloc_ok, malloc_ok) ==
  LET same == {s \in 1..Len(secs) : secs[s].name = section_name}
  IN  IF same # {}
      THEN [ret |-> CHOOSE s \in same : \A t \in same : s <= t,
            sections |-> secs, cap_sections |-> cap, failed |-> 0]
      ELSE [ret |-> Len(secs) + 1,
            sections |-> Append(secs, NewSection(section_name)),
            cap_sections |-> IF Len(secs) = cap THEN cap * 2 ELSE cap,
            failed |-> 0]

\* __ini_add_section: grow the section array when it is full, then append a
\* record with an empty key array.  ret is the index of the new section, 0
\* for NULL; failed counts the allocations that failed.
__ini_add_section(secs, cap, section_name, realloc_ok, malloc_ok) ==
  LET full == Len(secs) = cap
      cap2 == IF full THEN GrownCap(cap) ELSE cap
  IN  IF full /\ ~realloc_ok
      THEN [ret |-> 0, sections |-> secs, cap_sections |-> cap, failed |-> 1]
      ELSE IF ~malloc_ok
      THEN [ret |-> 0, sections |-> secs, cap_sections |-> cap2, failed |-> 1]
      ELSE [ret |-> Len(secs) + 1,
            sections |-> Append(secs, NewSection(section_name)),
            cap_sections |-> cap2, failed |-> 0]

\* What realloc of a full key array can do.  On a live array it grows in
\* place, moves the block (the old one is released) or fails.  On an array
\* already released by an earlier realloc the call is undefined: it may
\* abort the process or hand back a block as if nothing were wrong.
ReallocOutcomes(section) ==
  IF section.ptr_keys = "live"
  THEN {"inplace", "moved"} \cup (IF fails < MaxAllocFail THEN {"fail"} ELSE {})
  ELSE {"inplace", "moved", "crash"}

\* What strcpy of the key name into name[INILOAD_NAME_MAXLEN + 1] can do:
\* a name that fits is stored; a longer one overruns the array, which a
\* plain build stores (the overrun of the names drawn here stays inside the
\* padding of ini_key) and a fortified build aborts on.
StrcpyOutcomes(key_name) ==
  IF Len(key_name) <= INILOAD_NAME_MAXLEN THEN {"stored"}
  ELSE {"stored", "crash"}

\* __ini_add_key.  ret is the function's return value (1 added, 0 not);
\* crash tells that the process died inside the call.
__ini_add_key(section, key_name, type, value, realloc_out, strcpy_out, malloc_ok) ==
  IF num_keys(section) = section.cap_keys
  THEN \* lines 201-209: "if (new_ptr) return 0;"
       IF realloc_out = "crash"
       THEN [ret |-> 0, section |-> section, crash |-> TRUE, failed |-> 0]
       ELSE IF realloc_out = "fail"
       THEN \* ptr_keys = NULL, cap doubled, then strcpy through NULL
            [ret |-> 0,
             section |-> [section EXCEPT !.ptr_keys = "null",
                                         !.cap_keys = GrownCap(section.cap_keys)],
             crash |-> TRUE, failed |-> 1]
       ELSE [ret |-> 0,
             section |-> [section EXCEPT !.ptr_keys =
                            IF realloc_out = "moved" THEN "stale" ELSE @],
             crash |-> FALSE, failed |-> 0]
  ELSE IF strcpy_out = "crash"
  THEN [ret |-> 0, section |-> section, crash |-> TRUE, failed |-> 0]
  ELSE IF type = "INI_KEY_STRING" /\ ~malloc_ok
  THEN [ret |-> 0, section |-> section, crash |-> FALSE, failed |-> 1]
  ELSE [ret |-> 1,
        section |-> [section EXCEPT !.keys =
                       Append(@, [name |-> key_name, type |-> type,
                                  value |-> value])],
        crash |-> FALSE, failed |-> 0]

\* ---- the scan loop of ini_load ---------------------------------------
\* InState with a loop that goes on after an error was flagged.
InState_NoStop(st) ==
  /\ pc = "scan"
  /\ i < file_size + 1
  /\ state = st

\* The loop condition together with the case of the switch that is taken.
InState(st) ==
  /\ pc = "scan"
  /\ i < file_size + 1 /\ ~bad_syntax /\ ~alloc_error
  /\ state = st

c == buf[i + 1]

docVars == <<sections, cap_sections, curr_section, fails>>
endVars == <<pc, result, q>>
inVars  == <<file, buf>>

\* IsCommentStart knowing '#' only.
IsCommentStart_HashOnly(ch) == ch = "#"

\* Line 335: the bytes that open a comment.
IsCommentStart(ch) == ch \in {";", "#"}

INIPS_NONE ==
  /\ InState("INIPS_NONE")
  /\ i' = i + 1
  /\ IF c \in {"\n", "\r", " ", "\t", NUL}
     THEN UNCHANGED <<state, curr_str>>
     ELSE IF IsCommentStart(c)
     THEN state' = "INIPS_COMMENT" /\ UNCHANGED curr_str
     ELSE IF c = "["
     THEN state' = "INIPS_SECTION_NAME" /\ curr_str' = <<>>
     ELSE state' = "INIPS_KEY_NAME" /\ curr_str' = <<c>>
  /\ UNCHANGED <<val_str, quotes, bad_syntax, alloc_error>>
  /\ UNCHANGED <<docVars, endVars, inVars>>

INIPS_COMMENT ==
  /\ InState("INIPS_COMMENT")
  /\ i' = i + 1
  /\ state' = IF c \in {"\n", "\r", NUL} THEN "INIPS_NONE" ELSE state
  /\ UNCHANGED <<curr_str, val_str, quotes, bad_syntax, alloc_error>>
  /\ UNCHANGED <<docVars, endVars, inVars>>

\* SectionNameTooLong off by one.
SectionNameTooLong_OffByOne(pos) == pos > INILOAD_NAME_MAXLEN + 1

\* Line 365: the section name is too long to be stored.
SectionNameTooLong(pos) == pos > INILOAD_NAME_MAXLEN

\* EndsSectionNameBadly without the end of the line.
EndsSectionNameBadly_NoEol(ch) == ch \in {"[", "=", ";", "#", NUL}

\* Lines 377-379: the bytes that may not come before the closing ']'.
EndsSectionNameBadly(ch) == ch \in {"[", "=", ";", "#", "\n", "\r", NUL}

INIPS_SECTION_NAME ==
  /\ InState("INIPS_SECTION_NAME")
  /\ i' = i + 1
  /\ IF c = "]"
     THEN IF SectionNameTooLong(curr_pos)
          THEN /\ bad_syntax' = TRUE
               /\ UNCHANGED <<state, curr_str, alloc_error, docVars>>
          ELSE \E realloc_ok \in AllocOutcomes, malloc_ok \in AllocOutcomes :
                 LET r == __ini_add_section(sections, cap_sections, curr_str,
                                            realloc_ok, malloc_ok)
                 IN  /\ sections' = r.sections
                     /\ cap_sections' = r.cap_sections
                     /\ curr_section' = r.ret
                     /\ fails' = fails + r.failed
                     /\ alloc_error' = (r.ret = 0)
                     /\ state' = IF r.ret = 0 THEN state
                                 ELSE "INIPS_AFTER_SECTION_NAME"
                     /\ UNCHANGED <<bad_syntax, curr_str>>
     ELSE IF EndsSectionNameBadly(c)
     THEN /\ bad_syntax' = TRUE
          /\ UNCHANGED <<state, curr_str, alloc_error, docVars>>
     ELSE /\ curr_str' = Append(curr_str, c)
          /\ UNCHANGED <<state, bad_syntax, alloc_error, docVars>>
  /\ UNCHANGED <<val_str, quotes, endVars, inVars>>

INIPS_AFTER_SECTION_NAME ==
  /\ InState("INIPS_AFTER_SECTION_NAME")
  /\ i' = i + 1
  /\ IF c \in {"\n", "\r", NUL}
     THEN state' = "INIPS_NONE" /\ UNCHANGED bad_syntax
     ELSE bad_syntax' = TRUE /\ UNCHANGED state
  /\ UNCHANGED <<curr_str, val_str, quotes, alloc_error>>
  /\ UNCHANGED <<docVars, endVars, inVars>>

\* Lines 398-400: the state entered when a space, a tab or '=' ends the
\* key name.
AfterKeyNameByte(ch) == "INIPS_AFTER_KEY_NAME"

INIPS_KEY_NAME ==
  /\ InState("INIPS_KEY_NAME")
  /\ i' = i + 1
  /\ IF c \in {" ", "\t", "="}
     THEN state' = AfterKeyNameByte(c) /\ UNCHANGED <<curr_str, bad_syntax>>
     ELSE IF c \in {"\n", "\r", NUL, "[", "]"}
     THEN bad_syntax' = TRUE /\ UNCHANGED <<state, curr_str>>
     ELSE curr_str' = Append(curr_str, c) /\ UNCHANGED <<state, bad_syntax>>
  /\ UNCHANGED <<val_str, quotes, alloc_error>>
  /\ UNCHANGED <<docVars, endVars, inVars>>

INIPS_AFTER_KEY_NAME ==
  /\ InState("INIPS_AFTER_KEY_NAME")
  /\ i' = i + 1
  /\ IF c \in {" ", "\t"}
     THEN UNCHANGED <<state, val_str, quotes, bad_syntax>>
     ELSE IF c = "="
     THEN /\ state' = "INIPS_BEFORE_KEY_VALUE"
          /\ val_str' = <<>>
          /\ quotes' = FALSE
          /\ UNCHANGED bad_syntax
     ELSE bad_syntax' = TRUE /\ UNCHANGED <<state, val_str, quotes>>
  /\ UNCHANGED <<curr_str, alloc_error>>
  /\ UNCHANGED <<docVars, endVars, inVars>>

INIPS_BEFORE_KEY_VALUE ==
  /\ InState("INIPS_BEFORE_KEY_VALUE")
  /\ i' = i + 1
  /\ IF c \in {" ", "\t"}
     THEN UNCHANGED <<state, val_str, quotes, bad_syntax>>
     ELSE IF c \in {"\n", "\r", NUL, "[", "]"}
     THEN bad_syntax' = TRUE /\ UNCHANGED <<state, val_str, quotes>>
     ELSE IF c = "\""
     THEN /\ quotes' = TRUE
          /\ state' = "INIPS_KEY_VALUE"
          /\ UNCHANGED <<val_str, bad_syntax>>
     ELSE /\ val_str' = Append(val_str, c)
          /\ state' = "INIPS_KEY_VALUE"
          /\ UNCHANGED <<quotes, bad_syntax>>
  /\ UNCHANGED <<curr_str, alloc_error>>
  /\ UNCHANGED <<docVars, endVars, inVars>>

\* NeedAnonymousSection without the test for an open section.
NeedAnonymousSection_Always(cs) == TRUE

\* Line 455: no section is open, an anonymous one has to be created.
NeedAnonymousSection(cs) == cs = 0

\* ValueType that types a value by its text alone, quoted or not.
ValueType_ByText(text, quoted) ==
  IF /\ text # <<>>
     /\ \A j \in 1..Len(text) :
          text[j] \in {"0", "1", "2", "3", "4", "5", "6", "7", "8", "9"}
  THEN "INI_KEY_INT" ELSE "INI_KEY_STRING"

\* Line 464: the type tag ini_load passes to __ini_add_key for a value
\* captured with (quoted) or without quotes.
ValueType(text, quoted) == "INI_KEY_STRING"

\* Line 464: what ini_load makes of the value __ini_add_key returned (it
\* is dropped).
KeyAddFailed(ret) == FALSE

\* DelimiterRejected without the test for quotes.
DelimiterRejected_Always(ch, quoted) == ch \in {"[", "]", "="}

\* Lines 467-470: a delimiter in a value is an error unless the value is
\* quoted.
DelimiterRejected(ch, quoted) == ch \in {"[", "]", "="} /\ ~quoted

INIPS_KEY_VALUE ==
  /\ InState("INIPS_KEY_VALUE")
  /\ i' = i + 1
  /\ IF c \in {"\n", "\r", NUL, "\""}
     THEN IF c = "\"" /\ ~quotes
          THEN /\ bad_syntax' = TRUE
               /\ UNCHANGED <<state, val_str, alloc_error, docVars, pc, result>>
          ELSE \E realloc_ok \in AllocOutcomes, malloc_ok \in AllocOutcomes :
                 LET anon == NeedAnonymousSection(curr_section)
                     a == IF anon
                          THEN __ini_add_section(sections, cap_sections, <<>>,
                                                 realloc_ok, malloc_ok)
                          ELSE [ret |-> curr_section, sections |-> sections,
                                cap_sections |-> cap_sections, failed |-> 0]
                 IN  IF a.ret = 0
                     THEN /\ alloc_error' = TRUE
                          /\ sections' = a.sections
                          /\ cap_sections' = a.cap_sections
                          /\ curr_section' = 0
                          /\ fails' = fails + a.failed
                          /\ UNCHANGED <<state, val_str, bad_syntax, pc, result>>
                     ELSE \E realloc_out \in ReallocOutcomes(a.sections[a.ret]),
                             strcpy_out \in StrcpyOutcomes(curr_str),
                             copy_ok \in (IF fails + a.failed < MaxAllocFail
                                          THEN {TRUE, FALSE} ELSE {TRUE}) :
                            LET k == __ini_add_key(a.sections[a.ret], curr_str,
                                                   ValueType(val_str, quotes),
                                                   val_str, realloc_out,
                                                   strcpy_out, copy_ok)
                            IN  /\ sections' = [a.sections EXCEPT ![a.ret] = k.section]
                                /\ cap_sections' = a.cap_sections
                                /\ curr_section' = a.ret
                                /\ fails' = fails + a.failed + k.failed
                                /\ alloc_error' = KeyAddFailed(k.ret)
                                /\ IF k.crash
                                   THEN /\ pc' = "crashed"
                                        /\ result' = "crash"
                                        /\ UNCHANGED state
                                   ELSE /\ state' = "INIPS_NONE"
                                        /\ UNCHANGED <<pc, result>>
                                /\ UNCHANGED <<val_str, bad_syntax>>
     ELSE IF DelimiterRejected(c, quotes)
     THEN /\ bad_syntax' = TRUE
          /\ UNCHANGED <<state, val_str, alloc_error, docVars, pc, result>>
     ELSE /\ val_str' = Append(val_str, c)
          /\ UNCHANGED <<state, bad_syntax, alloc_error, docVars, pc, result>>
  /\ UNCHANGED <<curr_str, quotes, q, inVars>>

\* LoadFailed with the syntax flag forgotten.
LoadFailed_NoSyntax(bs, ae) == ae

\* Line 491: the condition under which the document is torn down and NULL
\* returned.
LoadFailed(bs, ae) == bs \/ ae

\* free() of a key array that an earlier realloc already released is
\* undefined: the process may abort or carry on.
FreeOutcomes(secs) ==
  IF \E s \in 1..Len(secs) : secs[s].ptr_keys # "live"
  THEN {"ok", "crash"} ELSE {"ok"}

\* Lines 487-497: the scan is over; release the buffers and return.
ini_load_return ==
  /\ pc = "scan"
  /\ ~(i < file_size + 1 /\ ~bad_syntax /\ ~alloc_error)
  /\ IF LoadFailed(bad_syntax, alloc_error)
     THEN \E out \in FreeOutcomes(sections) :
            IF out = "crash"
            THEN pc' = "crashed" /\ result' = "crash"
            ELSE pc' = "done" /\ result' = "NULL"
     ELSE pc' = "loaded" /\ result' = "doc"
  /\ UNCHANGED <<i, state, curr_str, val_str, quotes, bad_syntax,
                 alloc_error, docVars, q, inVars>>

\* ---- accessors ------------------------------------------------------
\* The value a getter is given as default_val.
DefaultVal == <<"default">>

\* Names asked for by the queries.
QNames == {<<>>, <<"a">>, <<"b">>}

ini_num_sections(secs) == Len(secs)

ini_has_section(secs, section_name) ==
  \E s \in 1..Len(secs) : secs[s].name = section_name

\* Lines 511-519: the first section of that name decides.
ini_num_keys(secs, section_name) ==
  LET m == {s \in 1..Len(secs) : secs[s].name = section_name}
  IN  IF m = {} THEN 0
      ELSE num_keys(secs[CHOOSE s \in m : \A t \in m : s <= t])

\* The sections whose key arrays the nested loops of lines 523-531 walk:
\* every section of that name (the outer loop does not stop at the first).
KeyHits(secs, section_name, key_name) ==
  {s \in 1..Len(secs) :
     /\ secs[s].name = section_name
     /\ \E k \in 1..num_keys(secs[s]) : secs[s].keys[k].name = key_name}

ini_has_key(secs, section_name, key_name) ==
  KeyHits(secs, section_name, key_name) # {}

\* The key at which the loops of the getters return: the first key of that
\* name in the first section of that name that has one.
FoundKey(secs, section_name, key_name) ==
  LET hits == KeyHits(secs, section_name, key_name)
      s == CHOOSE x \in hits : \A y \in hits : x <= y
      ks == {k \in 1..num_keys(secs[s]) : secs[s].keys[k].name = key_name}
  IN  secs[s].keys[CHOOSE k \in ks : \A l \in ks : k <= l]

GetTyped(secs, section_name, key_name, type, default_val) ==
  IF KeyHits(secs, section_name, key_name) = {} THEN default_val
  ELSE LET key == FoundKey(secs, section_name, key_name)
       IN  IF key.type = type THEN key.value ELSE default_val

ini_get_int(secs, section_name, key_name, default_val) ==
  GetTyped(secs, section_name, key_name, "INI_KEY_INT", default_val)

ini_get_float(secs, section_name, key_name, default_val) ==
  GetTyped(secs, section_name, key_name, "INI_KEY_FLOAT", default_val)

ini_get_string(secs, section_name, key_name, default_val) ==
  GetTyped(secs, section_name, key_name, "INI_KEY_STRING", default_val)

\* A lookup by key walks the key array of every section of that name.  If
\* one of them was released by realloc the reads are undefined: they may
\* find the old contents, find anything else, or abort.
ReadOutcomes(secs, section_name) ==
  IF \E s \in 1..Len(secs) :
       /\ secs[s].name = section_name
       /\ num_keys(secs[s]) > 0
       /\ secs[s].ptr_keys # "live"
  THEN {"intact", "garbage", "crash"} ELSE {"intact"}

Garbage == {DefaultVal, <<"garbage">>}

\* One round of calls of the accessors on the loaded document.  The
\* accessors change nothing, so one round per behaviour shows them all.
Query ==
  /\ pc = "loaded"
  /\ ~q.asked
  /\ \E section_name \in QNames, key_name \in QNames :
     \E out \in ReadOutcomes(sections, section_name) :
       IF out = "crash"
       THEN pc' = "crashed" /\ UNCHANGED q
       ELSE /\ UNCHANGED pc
            /\ \E hk \in (IF out = "intact"
                          THEN {ini_has_key(sections, section_name, key_name)}
                          ELSE BOOLEAN),
                  gi \in (IF out = "intact"
                          THEN {ini_get_int(sections, section_name, key_name, DefaultVal)}
                          ELSE Garbage),
                  gf \in (IF out = "intact"
                          THEN {ini_get_float(sections, section_name, key_name, DefaultVal)}
                          ELSE Garbage),
                  gs \in (IF out = "intact"
                          THEN {ini_get_string(sections, section_name, key_name, DefaultVal)}
                          ELSE Garbage) :
               q' = [asked |-> TRUE, section |-> section_name, key |-> key_name,
                     has_section |-> ini_has_section(sections, section_name),
                     num_keys |-> ini_num_keys(sections, section_name),
                     has_key |-> hk, get_int |-> gi, get_float |-> gf,
                     get_string |-> gs]
  /\ UNCHANGED <<i, state, curr_str, val_str, quotes, bad_syntax,
                 alloc_error, docVars, result, inVars>>

\* Lines 586-598, called by the owner of a loaded document.
ini_free ==
  /\ pc = "loaded"
  /\ \E out \in FreeOutcomes(sections) :
       pc' = IF out = "crash" THEN "crashed" ELSE "freed"
  /\ UNCHANGED <<i, state, curr_str, val_str, quotes, bad_syntax,
                 alloc_error, docVars, result, q, inVars>>

Next ==
  \/ ini_load_open
  \/ INIPS_NONE
  \/ INIPS_COMMENT
  \/ INIPS_SECTION_NAME
  \/ INIPS_AFTER_SECTION_NAME
  \/ INIPS_KEY_NAME
  \/ INIPS_AFTER_KEY_NAME
  \/ INIPS_BEFORE_KEY_VALUE
  \/ INIPS_KEY_VALUE
  \/ ini_load_return
  \/ Query
  \/ ini_free

Spec == Init /\ [][Next]_vars

\* ---- the grammar of the file format, line by line --------------------
\* These definitions read the input file the way the format is documented
\* (section 6): they are the yardstick the loaded document is held against.
Blank == {" ", "\t"}

MinOf(S) == CHOOSE x \in S : \A y \in S : x <= y

\* Index of the first character of l that is in S, 0 if there is none.
FirstIn(l, S) ==
  LET hits == {j \in 1..Len(l) : l[j] \in S}
  IN  IF hits = {} THEN 0 ELSE MinOf(hits)

\* Index of the first character of l at or after from that is not in S.
FirstNotIn(l, S, from) ==
  LET hits == {j \in from..Len(l) : l[j] \notin S}
  IN  IF hits = {} THEN 0 ELSE MinOf(hits)

IsBlankLine(l) == \A j \in 1..Len(l) : l[j] \in Blank

IsCommentLine(l) == Len(l) > 0 /\ l[1] \in {";", "#"}

\* section := '[' name ']' trailing-whitespace
IsHeaderLine(l) ==
  /\ Len(l) >= 2 /\ l[1] = "["
  /\ LET close == FirstIn(l, {"]"})
     IN  /\ close > 0
         /\ close - 2 <= INILOAD_NAME_MAXLEN
         /\ \A j \in 2..(close - 1) : l[j] \notin {"[", "=", ";", "#"}
         /\ \A j \in (close + 1)..Len(l) : l[j] \in Blank

HeaderName(l) == SubSeq(l, 2, FirstIn(l, {"]"}) - 1)

\* key-line := name ws* '=' ws* value
KeyNameEnd(l) ==
  LET stop == FirstIn(l, Blank \cup {"="})
  IN  IF stop = 0 THEN 0 ELSE stop - 1

KeyValueStart(l) ==
  LET eq == FirstIn(l, {"="})
  IN  IF eq = 0 THEN 0 ELSE FirstNotIn(l, Blank, eq + 1)

KeyQuoted(l) == l[KeyValueStart(l)] = "\""

KeyQuoteEnd(l) ==
  LET v == KeyValueStart(l)
      hits == {j \in (v + 1)..Len(l) : l[j] = "\""}
  IN  IF hits = {} THEN 0 ELSE MinOf(hits)

IsKeyLine(l) ==
  /\ Len(l) > 0 /\ l[1] \notin Blank \cup {";", "#", "[", "]", "="}
  /\ LET n == KeyNameEnd(l)
         eq == FirstIn(l, {"="})
         v == KeyValueStart(l)
     IN  /\ n >= 1 /\ n <= INILOAD_NAME_MAXLEN
         /\ eq > n
         /\ \A j \in 1..n : l[j] \notin {"[", "]"}
         /\ \A j \in (n + 1)..(eq - 1) : l[j] \in Blank
         /\ v > 0
         /\ IF l[v] = "\""
            THEN /\ KeyQuoteEnd(l) > 0
                 /\ \A j \in (KeyQuoteEnd(l) + 1)..Len(l) : l[j] \in Blank
            ELSE \A j \in v..Len(l) : l[j] \notin {"[", "]", "="}

KeyName(l) == SubSeq(l, 1, KeyNameEnd(l))

KeyText(l) ==
  IF KeyQuoted(l)
  THEN SubSeq(l, KeyValueStart(l) + 1, KeyQuoteEnd(l) - 1)
  ELSE SubSeq(l, KeyValueStart(l), Len(l))

ValidLine(l) ==
  IsBlankLine(l) \/ IsCommentLine(l) \/ IsHeaderLine(l) \/ IsKeyLine(l)

ValidFile(f) == \A j \in 1..Len(f) : ValidLine(f[j])

\* The document the format assigns to a valid file: one section per header
\* in file order, an anonymous one first if a key precedes every header,
\* and each key in the section open at its line.
RECURSIVE RefDocFrom(_, _)
RefDocFrom(lines, acc) ==
  IF lines = <<>> THEN acc
  ELSE LET l == Head(lines)
           key == [name |-> KeyName(l), text |-> KeyText(l),
                   quoted |-> KeyQuoted(l)]
           acc2 ==
             IF IsBlankLine(l) \/ IsCommentLine(l) THEN acc
             ELSE IF IsHeaderLine(l)
             THEN Append(acc, [name |-> HeaderName(l), keys |-> <<>>,
                               anonymous |-> FALSE])
             ELSE IF acc = <<>>
             THEN <<[name |-> <<>>, keys |-> <<key>>, anonymous |-> TRUE]>>
             ELSE [acc EXCEPT ![Len(acc)].keys = Append(@, key)]
       IN  RefDocFrom(Tail(lines), acc2)

RefDoc(f) == RefDocFrom(f, <<>>)

NumHeaders(f) == Cardinality({j \in 1..Len(f) : IsHeaderLine(f[j])})

HasAnonymous(f) == LET d == RefDoc(f) IN d # <<>> /\ d[1].anonymous

\* Index of the first section of the reference document with that name.
RefFirst(d, section_name) ==
  LET m == {s \in 1..Len(d) : d[s].name = section_name}
  IN  IF m = {} THEN 0 ELSE MinOf(m)

\* Index of the first key of that name in a reference section.
RefFirstKey(sec, key_name) ==
  LET m == {k \in 1..Len(sec.keys) : sec.keys[k].name = key_name}
  IN  IF m = {} THEN 0 ELSE MinOf(m)

\* ini_load has returned, or the process has died in it.
Finished == pc \notin {"start", "scan"}

\* ---- claims -----------------------------------------------------------

\* C1: load is all-or-nothing.  A document is returned only when the scan
\* consumed every byte and the terminator with neither error flag raised;
\* once a syntax error is flagged the load ends without a document, however
\* many sections and keys had been registered by then.
C1_AllOrNothing ==
  /\ result = "doc" =>
       /\ ~bad_syntax /\ ~alloc_error
       /\ i = file_size + 1
  /\ (Finished /\ bad_syntax) => result \in {"NULL", "crash"}

\* A load that failed on a syntax error after a section and a key had
\* already been registered.
C1_Witness ==
  /\ pc = "done" /\ result = "NULL" /\ bad_syntax
  /\ num_sections > 0
  /\ \E s \in 1..num_sections : num_keys(sections[s]) > 0

\* The file is one section header whose name has n characters.
OneHeader(n) == file = << <<"[">> \o LongName(n) \o <<"]">> >>

LongLengths == (INILOAD_NAME_MAXLEN - 1)..(INILOAD_NAME_MAXLEN + NameSlack)

\* C7: no stored section name is longer than INILOAD_NAME_MAXLEN; a header
\* with a longer name makes the load fail and registers no section, and
\* (no allocation failing) one of exactly the maximum length loads.
C7_SectionNameBound ==
  /\ \A s \in 1..num_sections :
       Len(sections[s].name) <= INILOAD_NAME_MAXLEN
  /\ \A n \in LongLengths :
       (Finished /\ fails = 0 /\ OneHeader(n)) =>
          IF n <= INILOAD_NAME_MAXLEN
          THEN /\ result = "doc"
               /\ num_sections = 1
               /\ sections[1].name = LongName(n)
          ELSE result = "NULL" /\ num_sections = 0

\* A document holding a section whose name has exactly the maximum length.
C7_Witness ==
  /\ result = "doc"
  /\ OneHeader(INILOAD_NAME_MAXLEN)
  /\ Len(sections[1].name) = INILOAD_NAME_MAXLEN

\* The names of the sections the format assigns to the file, in order.
RefNames(f) == [s \in 1..Len(RefDoc(f)) |-> RefDoc(f)[s].name]

\* The number of bytes of the file that precede its first header line (all
\* of them, terminator included, if it has no header).
SectionlessBytes(f) ==
  LET heads == {j \in 1..Len(f) : IsHeaderLine(f[j])}
  IN  IF heads = {} THEN Len(Join(f)) + 1
      ELSE IF MinOf(heads) = 1 THEN 0
      ELSE Len(Join(SubSeq(f, 1, MinOf(heads) - 1))) + 1

C10_NoMerge ==
  (result = "doc" /\ ValidFile(file)) =>
     /\ ini_num_sections(sections) =
          NumHeaders(file) + (IF HasAnonymous(file) THEN 1 ELSE 0)
     /\ [s \in 1..num_sections |-> sections[s].name] = RefNames(file)

\* A document with more sections than the initial capacity, all of one
\* name, after an anonymous section.
C10_Witness ==
  /\ result = "doc" /\ ValidFile(file) /\ HasAnonymous(file)
  /\ num_sections > INILOAD_INITIAL_CAP + 1
  /\ cap_sections > INILOAD_INITIAL_CAP
  /\ \A s \in 2..num_sections : sections[s].name = <<"a">>

\* ---- how the format types an unquoted value ---------------------------
DigitChars == <<"0", "1", "2", "3", "4", "5", "6", "7", "8", "9">>
Digits == {DigitChars[j] : j \in 1..10}
DigitVal(ch) == (CHOOSE j \in 1..10 : DigitChars[j] = ch) - 1

Unsigned(text) ==
  IF Len(text) > 0 /\ text[1] \in {"+", "-"} THEN Tail(text) ELSE text

\* The whole text is an optional sign and decimal digits.
LexesAsInt(text) ==
  LET u == Unsigned(text)
  IN  Len(u) > 0 /\ \A j \in 1..Len(u) : u[j] \in Digits

\* The whole text is an optional sign and digits around one decimal point.
LexesAsFloat(text) ==
  LET u == Unsigned(text)
  IN  /\ \A j \in 1..Len(u) : u[j] \in Digits \cup {"."}
      /\ Cardinality({j \in 1..Len(u) : u[j] = "."}) <= 1
      /\ \E j \in 1..Len(u) : u[j] \in Digits

RECURSIVE DecimalValue(_)
DecimalValue(u) ==
  IF u = <<>> THEN 0
  ELSE 10 * DecimalValue(SubSeq(u, 1, Len(u) - 1)) + DigitVal(u[Len(u)])

IntValue(text) ==
  IF text[1] = "-" THEN 0 - DecimalValue(Unsigned(text))
  ELSE DecimalValue(Unsigned(text))

\* The query was answered by a document loaded from a valid file with no
\* allocation failing.
Answered == pc = "loaded" /\ q.asked /\ ValidFile(file) /\ fails = 0

\* C2: a key whose unquoted value lexes fully as an integer is stored with
\* the integer tag (getInt returns the integer, getFloat and getString the
\* default); one that lexes as a float only, with the float tag; any other,
\* with the string tag.
C2_TypeInference ==
  Answered =>
    LET d == RefDoc(file)
        s == RefFirst(d, q.section)
        k == RefFirstKey(d[s], q.key)
        text == d[s].keys[k].text
    IN  (s # 0 /\ k # 0 /\ ~d[s].keys[k].quoted) =>
          IF LexesAsInt(text)
          THEN /\ q.get_int # DefaultVal
               /\ q.get_int = IntValue(text)
               /\ q.get_float = DefaultVal
               /\ q.get_string = DefaultVal
          ELSE IF LexesAsFloat(text)
          THEN /\ q.get_float # DefaultVal
               /\ q.get_int = DefaultVal
               /\ q.get_string = DefaultVal
          ELSE /\ q.get_string = text
               /\ q.get_int = DefaultVal
               /\ q.get_float = DefaultVal

\* C3: countKeys(name) is the number of key lines of the first section of
\* that name, also past the initial capacity of the key array.
C3_CountKeys ==
  Answered =>
    LET d == RefDoc(file)
        s == RefFirst(d, q.section)
    IN  q.num_keys = (IF s = 0 THEN 0 ELSE Len(d[s].keys))

\* C4: with two or more sections of one name, hasKey and the getters
\* resolve against the first of them only: a key that the first one lacks
\* is absent, whatever later sections of that name hold.
C4_FirstMatchWins ==
  Answered =>
    LET d == RefDoc(file)
        same == {s \in 1..Len(d) : d[s].name = q.section}
        present == RefFirstKey(d[MinOf(same)], q.key) # 0
    IN  Cardinality(same) >= 2 =>
          /\ q.has_key = present
          /\ ~present => /\ q.get_int = DefaultVal
                         /\ q.get_float = DefaultVal
                         /\ q.get_string = DefaultVal

\* A key line "name=value": no blank on either side of the equals sign and
\* no quotes.
IsTightKeyLine(l) ==
  /\ IsKeyLine(l)
  /\ \A j \in 1..Len(l) : l[j] \notin Blank \cup {"\""}

\* C5: key lines written name=value are accepted.  A file made of such
\* lines only (no more than fit the initial capacity, no allocation
\* failing) loads, and each line is registered with its name and value.
C5_TightEquals ==
  ( /\ Finished /\ fails = 0
    /\ Len(file) \in 1..INILOAD_INITIAL_CAP
    /\ \A j \in 1..Len(file) : IsTightKeyLine(file[j]) ) =>
     /\ result = "doc"
     /\ num_sections = 1
     /\ num_keys(sections[1]) = Len(file)
     /\ \A j \in 1..Len(file) :
          /\ sections[1].keys[j].name = KeyName(file[j])
          /\ sections[1].keys[j].value = KeyText(file[j])

\* The file is one key line whose name has n characters.
OneKey(n) == file = << LongName(n) \o <<" ", "=", "1">> >>

\* C6: no stored key name is longer than INILOAD_NAME_MAXLEN; a key line
\* with a longer name never yields a document, and (no allocation failing)
\* one of exactly the maximum length loads.
C6_KeyNameBound ==
  /\ result = "doc" =>
       \A s \in 1..num_sections : \A k \in 1..num_keys(sections[s]) :
         Len(sections[s].keys[k].name) <= INILOAD_NAME_MAXLEN
  /\ \A n \in LongLengths :
       (Finished /\ fails = 0 /\ OneKey(n)) =>
          IF n <= INILOAD_NAME_MAXLEN
          THEN /\ result = "doc"
               /\ sections[1].keys[1].name = LongName(n)
          ELSE result # "doc"

\* C8: a load during which an allocation failed does not return a
\* document.
C8_AllocFailure ==
  (Finished /\ fails > 0) => result # "doc"

\* No key array that a lookup in the section named by the query walks has
\* been released: the accessors read what was stored.
Intact == ReadOutcomes(sections, q.section) = {"intact"}

\* C11: quoted values are always string-typed.  When the key a query
\* resolves to (the first key of that name in the first section of that
\* name, present in the document) was written between double quotes,
\* getString returns the text between the quotes and getInt and getFloat
\* return the default, also when the text looks like a number.
C11_QuotedIsString ==
  (Answered /\ Intact) =>
    LET d == RefDoc(file)
        s == RefFirst(d, q.section)
        k == RefFirstKey(d[s], q.key)
    IN  ( /\ s # 0 /\ k # 0
          /\ k <= num_keys(sections[s])
          /\ d[s].keys[k].quoted ) =>
           /\ q.get_string = d[s].keys[k].text
           /\ q.get_int = DefaultVal
           /\ q.get_float = DefaultVal

\* A query answered with the text of a quoted value that looks like an
\* integer.
C11_Witness ==
  /\ Answered /\ Intact
  /\ LET d == RefDoc(file)
         s == RefFirst(d, q.section)
         k == RefFirstKey(d[s], q.key)
     IN  /\ s # 0 /\ k # 0
         /\ k <= num_keys(sections[s])
         /\ d[s].keys[k].quoted
         /\ LexesAsInt(d[s].keys[k].text)
         /\ q.get_string = d[s].keys[k].text

\* What a getter of the given type is to return on the loaded document: the
\* value of the first key of that name in the first section of that name if
\* its tag is that type, the default in every other case.
Expected(secs, section_name, key_name, type) ==
  LET m == {s \in 1..Len(secs) : secs[s].name = section_name}
      first == secs[MinOf(m)]
      ks == {k \in 1..num_keys(first) : first.keys[k].name = key_name}
      key == first.keys[MinOf(ks)]
  IN  IF m = {} THEN DefaultVal
      ELSE IF ks = {} THEN DefaultVal
      ELSE IF key.type = type THEN key.value
      ELSE DefaultVal

\* C12: each getter returns the stored value of the first key of that name
\* in the first section of that name when the tag is the getter's type, and
\* the default in every other case.
C12_SilentDefault ==
  (pc = "loaded" /\ q.asked) =>
     /\ q.get_int = Expected(sections, q.section, q.key, "INI_KEY_INT")
     /\ q.get_float = Expected(sections, q.section, q.key, "INI_KEY_FLOAT")
     /\ q.get_string = Expected(sections, q.section, q.key, "INI_KEY_STRING")

\* The bytes that end a line.
Eol == {"\n", "\r", NUL}

\* C13: after the closing ']' of a header, blanks are allowed before the
\* end of the line: only a byte that is neither a blank nor the end of the
\* line is a syntax error there.  (When the error is flagged the state
\* stays and buf[i] is the byte that raised it.)
C13_BlanksAfterHeader ==
  (state = "INIPS_AFTER_SECTION_NAME" /\ bad_syntax) =>
     buf[i] \notin Blank \cup Eol

\* The start of a key line up to its equals sign: name ws* '='.
HasKeyHead(l) ==
  /\ Len(l) > 0 /\ l[1] \notin Blank \cup {";", "#", "[", "]", "="}
  /\ LET n == KeyNameEnd(l)
         eq == FirstIn(l, {"="})
     IN  /\ n >= 1 /\ n <= INILOAD_NAME_MAXLEN
         /\ eq > n
         /\ \A j \in 1..n : l[j] \notin {"[", "]"}
         /\ \A j \in (n + 1)..(eq - 1) : l[j] \in Blank

\* A key line whose value opens a quote that the line never closes.
IsOpenQuoteLine(l) ==
  /\ HasKeyHead(l)
  /\ KeyValueStart(l) > 0
  /\ l[KeyValueStart(l)] = "\""
  /\ KeyQuoteEnd(l) = 0

\* C14: an unterminated quoted value is a syntax error: a file with a line
\* whose quote is still open at its end does not load.
C14_OpenQuote ==
  ( /\ Finished /\ fails = 0
    /\ \E j \in 1..Len(file) : IsOpenQuoteLine(file[j]) ) =>
     result # "doc"

\* A key line with a quoted value and something other than blanks after the
\* closing quote.
IsQuoteTrailLine(l) ==
  /\ HasKeyHead(l)
  /\ KeyValueStart(l) > 0
  /\ l[KeyValueStart(l)] = "\""
  /\ KeyQuoteEnd(l) > 0
  /\ \E j \in (KeyQuoteEnd(l) + 1)..Len(l) : l[j] \notin Blank

\* C15: after the closing quote only blanks may come before the end of the
\* line: a file with a line that has anything else there does not load.
C15_AfterClosingQuote ==
  ( /\ Finished /\ fails = 0
    /\ \E j \in 1..Len(file) : IsQuoteTrailLine(file[j]) ) =>
     result # "doc"

\* A key line with nothing after the equals sign and its blanks, or with
\* '=', '[' or ']' there.
IsBadValueStartLine(l) ==
  /\ HasKeyHead(l)
  /\ \/ KeyValueStart(l) = 0
     \/ l[KeyValueStart(l)] \in {"=", "[", "]"}

\* C16: a value is never empty and an unquoted value never starts with '=',
\* '[' or ']': a file with such a line does not load.
C16_ValueStart ==
  ( /\ Finished /\ fails = 0
    /\ \E j \in 1..Len(file) : IsBadValueStartLine(file[j]) ) =>
     result # "doc"

\* The scan is about to consume a byte in state st.
Scanning(st) ==
  /\ pc = "scan" /\ state = st
  /\ i < file_size + 1 /\ ~bad_syntax /\ ~alloc_error

\* A key line whose unquoted value holds '[', ']' or '=' after its first
\* character.
IsUnquotedDelimLine(l) ==
  /\ HasKeyHead(l)
  /\ KeyValueStart(l) > 0
  /\ l[KeyValueStart(l)] \notin {"\"", "[", "]", "="}
  /\ \E j \in (KeyValueStart(l) + 1)..Len(l) : l[j] \in {"[", "]", "="}

\* A step that consumes '[', ']' or '=' while a value is captured: quoted,
\* the byte is appended and the capture goes on; unquoted, it is a syntax
\* error and the document is left as it was.
C17_Step ==
  ( /\ Scanning("INIPS_KEY_VALUE")
    /\ buf[i + 1] \in {"[", "]", "="}
    /\ i' # i ) =>
     IF quotes
     THEN /\ val_str' = Append(val_str, buf[i + 1])
          /\ state' = "INIPS_KEY_VALUE" /\ quotes'
          /\ ~bad_syntax' /\ ~alloc_error'
     ELSE /\ bad_syntax'
          /\ sections' = sections

\* What the load returns: no document for a file with a delimiter in an
\* unquoted value; for a one-line file with a well-formed quoted value, a
\* document holding the text between the quotes, delimiters included.
C17_Loaded ==
  (Finished /\ fails = 0) =>
     /\ (\E j \in 1..Len(file) : IsUnquotedDelimLine(file[j])) =>
           result # "doc"
     /\ ( /\ Len(file) = 1 /\ IsKeyLine(file[1])
          /\ KeyQuoted(file[1]) ) =>
           /\ result = "doc"
           /\ num_sections = 1 /\ num_keys(sections[1]) = 1
           /\ sections[1].keys[1].value = KeyText(file[1])

\* C17: while an unquoted value is captured '[', ']' and '=' are syntax
\* errors and the load fails; inside a quoted value the same characters
\* are appended verbatim and parsing continues.
C17_Delimiters == [][C17_Step]_vars /\ []C17_Loaded

\* A document whose only key holds all three delimiters, taken from
\* between quotes.
C17_Witness ==
  /\ result = "doc" /\ fails = 0
  /\ file = <<E_quoteDelims>>
  /\ num_sections = 1 /\ num_keys(sections[1]) = 1
  /\ sections[1].keys[1].value = <<"[", "=", "]">>

\* A line that opens a header and has '[', '=', ';', '#' or the end of the
\* line before the closing ']'.
IsCutHeaderLine(l) ==
  /\ Len(l) >= 1 /\ l[1] = "["
  /\ LET close == FirstIn(l, {"]"})
         last == IF close = 0 THEN Len(l) ELSE close - 1
     IN  \/ close = 0
         \/ \E j \in 2..last : l[j] \in {"[", "=", ";", "#"}

\* A step that consumes '[', '=', ';', '#', a newline or the terminator
\* inside a header flags a syntax error and registers nothing.
C18_Step ==
  ( /\ Scanning("INIPS_SECTION_NAME")
    /\ buf[i + 1] \in {"[", "=", ";", "#", "\n", "\r", NUL}
    /\ i' # i ) =>
     /\ bad_syntax'
     /\ sections' = sections /\ cap_sections' = cap_sections
     /\ curr_section' = curr_section

\* A file with such a line yields no document.
C18_Loaded ==
  ( /\ Finished /\ fails = 0
    /\ \E j \in 1..Len(file) : IsCutHeaderLine(file[j]) ) =>
     result # "doc"

\* C18: an unterminated or malformed section header is a syntax error: the
\* load fails and the section is not registered.
C18_CutHeader == [][C18_Step]_vars /\ []C18_Loaded

\* "[a" followed by a newline and a key line: no document, and no section
\* was registered before the scan stopped at the newline.
C18_Witness ==
  /\ result = "NULL" /\ fails = 0 /\ bad_syntax
  /\ Len(file) = 2 /\ file[1] = L_secOpen /\ IsKeyLine(file[2])
  /\ state = "INIPS_SECTION_NAME" /\ i = Len(L_secOpen) + 1
  /\ num_sections = 0

\* The position never passes the terminator: at most file_size + 1 bytes
\* are consumed, and i counts them from 0.
C19_Bounded == i >= 0 /\ i <= file_size + 1

\* The position only ever moves forward by one, it moves on every
\* transition of the scan, and it moves only while the scan runs and no
\* error has been flagged.
C19_Step ==
  /\ i' # i =>
       /\ i' = i + 1
       /\ pc = "scan" /\ ~bad_syntax /\ ~alloc_error
  /\ (pc = "scan" /\ pc' = "scan") => i' = i + 1
  /\ (bad_syntax \/ alloc_error) =>
       /\ i' = i /\ state' = state
       /\ sections' = sections

IsQuietLine(l) == IsBlankLine(l) \/ IsCommentLine(l)

\* Transitions in INIPS_NONE on a blank, a newline or the terminator, and
\* all transitions in INIPS_COMMENT, leave the section list and every key
\* list as they were and flag no error.
C20_Step ==
  ( /\ i' # i
    /\ \/ /\ Scanning("INIPS_NONE")
          /\ buf[i + 1] \in {" ", "\t", "\n", "\r", NUL}
       \/ Scanning("INIPS_COMMENT") ) =>
     /\ sections' = sections /\ cap_sections' = cap_sections
     /\ curr_section' = curr_section
     /\ ~bad_syntax' /\ ~alloc_error'

\* A file of blank and comment lines only, the empty file included, loads
\* to a document without sections.
C20_Loaded ==
  ( /\ Finished /\ fails = 0
    /\ \A j \in 1..Len(file) : IsQuietLine(file[j]) ) =>
     /\ result = "doc"
     /\ num_sections = 0

\* C20: blank and comment input leaves the document unchanged, so an
\* input of blanks, blank lines and ';' or '#' comment lines loads with no
\* section.
C20_QuietInput == [][C20_Step]_vars /\ []C20_Loaded

\* A document loaded from a ';' comment line and a blank line.
C20_Witness ==
  /\ result = "doc" /\ num_sections = 0
  /\ Len(file) = 2
  /\ \E j \in 1..2 : IsCommentLine(file[j]) /\ file[j][1] = ";"
  /\ \E j \in 1..2 : IsBlankLine(file[j])
  /\ i = file_size + 1

\* C21: whatever was registered, growth of a key array included, the
\* key-array reference of every section denotes a live allocation: it is
\* neither a block that a reallocation released nor null.
C21_LiveKeyArrays ==
  \A s \in 1..Len(sections) : sections[s].ptr_keys = "live"

\* The bound on the doublings a capacity goes through for the files drawn.
MaxDoublings == 3

\* The initial capacity times a power of two.
IsCapacity(n) ==
  \E k \in 0..MaxDoublings : n = INILOAD_INITIAL_CAP * 2^k

\* The document exists: the scan runs or has returned it.
Parsing == pc = "scan" \/ result = "doc"

\* Counts stay within capacities, and capacities are 16 times a power of
\* two.
C22_Inv ==
  Parsing =>
     /\ num_sections <= cap_sections
     /\ IsCapacity(cap_sections)
     /\ \A s \in 1..Len(sections) :
          /\ num_keys(sections[s]) <= sections[s].cap_keys
          /\ IsCapacity(sections[s].cap_keys)

\* A capacity stays or doubles, a section keeps its place, and a new
\* element lands at an index strictly below the capacity then in force.
C22_Step ==
  pc = "scan" =>
     /\ cap_sections' \in {cap_sections, 2 * cap_sections}
     /\ Len(sections') \in {Len(sections), Len(sections) + 1}
     /\ Len(sections') > Len(sections) => Len(sections) < cap_sections'
     /\ \A s \in 1..Len(sections) :
          /\ sections'[s].cap_keys \in
               {sections[s].cap_keys, 2 * sections[s].cap_keys}
          /\ num_keys(sections'[s]) \in
               {num_keys(sections[s]), num_keys(sections[s]) + 1}
          /\ num_keys(sections'[s]) > num_keys(sections[s]) =>
               num_keys(sections[s]) < sections'[s].cap_keys

\* C22: throughout the parse num_sections <= cap_sections and, for every
\* section, num_keys <= cap_keys; every capacity is 16 times a power of
\* two and is only ever doubled; an element is only ever written at an
\* index strictly below the current capacity.
C22_Capacity == [][C22_Step]_vars /\ []C22_Inv

\* The section array has grown once and holds more sections than its
\* initial capacity; one section holds keys.
C22_Witness ==
  /\ Parsing
  /\ cap_sections = 2 * INILOAD_INITIAL_CAP
  /\ num_sections > INILOAD_INITIAL_CAP
  /\ \E s \in 1..Len(sections) : num_keys(sections[s]) > 0

\* A key array at its initial capacity and full: the next key asks for
\* its growth.
C22_FullKeyArray ==
  /\ pc = "scan"
  /\ \E s \in 1..Len(sections) :
       /\ num_keys(sections[s]) = sections[s].cap_keys
       /\ sections[s].cap_keys = INILOAD_INITIAL_CAP

\* A key array whose capacity was doubled.
C22_GrownKeyArray ==
  \E s \in 1..Len(sections) :
     sections[s].cap_keys = 2 * INILOAD_INITIAL_CAP

====
